---- MODULE Spec2Model ----
(***************************************************************************)
(* Model of the concurrent delivery pipeline of ducksoso/logger:           *)
(*   - SinkHandler  (buffered channel + one consumer goroutine, process)   *)
(*   - MultiHandler (fan-out to children with a WaitGroup barrier)         *)
(*   - LogRecorder  (the inner handler used by TestSinkHandler_Handle)     *)
(* Spec  : NumProducers goroutines running doLog through one SinkHandler,  *)
(*         plus one goroutine calling SinkHandler.Close.                   *)
(* FairSpec : the same goroutines under the Go scheduler's fairness.       *)
(* MSpec : one goroutine calling MultiHandler.Handle / MultiHandler.Close  *)
(*         on a MultiHandler whose children are LogRecorders and,          *)
(*         optionally, one SinkHandler.                                    *)
(* QSpec : Spec's goroutines plus a caller of SinkHandler.Status.          *)
(* FSpec : the producers, one of which calls logger.Fatal.                 *)
(* LSpec : a logger and its WriterHandler, levels set independently.       *)
(* SSpec : a SinkHandler around a WriterHandler, SetLevel / SetFormatter   *)
(*         called while process() drains.                                  *)
(* CSpec : a MultiHandler over WriterHandlers, reconfigured between        *)
(*         Handle calls.                                                   *)
(***************************************************************************)
EXTENDS Integers, Sequences, FiniteSets, TLC

\* ---- bounds of the model ----
NumProducers == 2      \* goroutines running doLog ("loggers" in the test)
NumEntries == 2        \* records each producer logs ("logEntries" in the test)
MaxChildren == 2       \* children of the MultiHandler
MaxCap == NumProducers * NumEntries   \* largest bufSize tried

\* ---- program constants (logger.go, const block) ----
CRITICAL == 0
INFO == 4
DEBUG == 5
Levels == CRITICAL..DEBUG
\* the levels tried where handlers are reconfigured: lowest, default, highest
CfgLevels == {CRITICAL, INFO, DEBUG}
\* the levels of the records sent through reconfigured handlers
RecLevels == {INFO, DEBUG}
DefaultLevel == INFO
\* Formatter values: the package's defaultFormatter and one set by the user
DefaultFormatter == "default"
Formatters == {DefaultFormatter, "custom"}

Producers == 1..NumProducers
NoRec == <<0, 0>>                     \* nil *Record
\* a Record is <<LoggerName, sequence number of the call in its producer>>
AllRecs == Producers \X (1..NumEntries)

VARIABLES
    \* SinkHandler
    bufSize,    \* b.bufSize
    sinkCh,     \* b.sinkCh: the records buffered in the channel, oldest first
    chClosed,   \* whether close(b.sinkCh) has been executed
    wg,         \* b.wg counter
    cpc,        \* position of the goroutine running process()
    cur,        \* rec, the record process() holds
    \* LogRecorder (inner handler)
    Records,    \* r.Records: LoggerName -> records handled, in order
    Closed,     \* r.Closed
    \* os.Stderr
    stderr,     \* number of "buffer too small dropping record" lines written
    \* goroutines of the test
    sent,       \* per producer: Handle calls that have returned
    dropped,    \* per producer: how many of those took the default branch
    clpc,       \* position of the goroutine calling SinkHandler.Close
    panicked,   \* the runtime panicked (send on closed channel): process dead
    \* MultiHandler and the goroutine calling it
    nKids,      \* len(b.handlers)
    sinkKid,    \* whether b.handlers[0] is the SinkHandler (else a LogRecorder)
    mpc,        \* position of the goroutine calling MultiHandler.Handle / Close
    mrec,       \* rec of the MultiHandler.Handle call in progress
    mdone,      \* MultiHandler.Handle calls that have returned
    mwg,        \* the call's local sync.WaitGroup counter
    task,       \* per child: position of the goroutine spawned for it
    kidCalls,   \* per child: records of its Handle calls that returned, in order
    kidCloses,  \* per child: Close calls that returned
    \* SinkHandler.Status
    status,     \* what the last Status() call returned
    \* logger.Fatal
    fatal,      \* the CRITICAL record of the l.Fatal call (NoRec: no such call)
    fenq,       \* whether Handle's send case took that record
    fpc,        \* position of the goroutine inside Fatal
    \* a logger with its own level
    lLevel,     \* l.Level
    lcalls,     \* the levels of the l.Critical .. l.Debug calls made, in order
    hcalls,     \* the records l.log passed to l.Handler.Handle, in order
    \* WriterHandlers: 0 is the one used alone (a logger's handler, or the
    \* SinkHandler's inner handler), 1..MaxChildren are MultiHandler children
    hLevel,     \* per WriterHandler: BaseHandler.Level
    hFmt,       \* per WriterHandler: BaseHandler.Formatter
    out,        \* per WriterHandler: the messages written to b.w, in order
    \* callers of SetLevel / SetFormatter
    cfg,        \* <<level, formatter>> last passed to the handler's setters
    enqCfg,     \* per sequence number: <<record level, inner level, inner
                \* formatter>> when Handle put the record in the channel
    expect      \* the messages a child configured by cfg at each Handle has to write

sinkVars == <<bufSize, sinkCh, chClosed, wg, cpc, cur, Records, Closed, stderr, panicked>>
testVars == <<sent, dropped, clpc>>
mhVars == <<nKids, sinkKid, mpc, mrec, mdone, mwg, task, kidCalls, kidCloses>>
logVars == <<lLevel, lcalls, hcalls>>
wrVars == <<hLevel, hFmt, out>>
cfgVars == <<cfg, enqCfg, expect>>
extVars == <<status, fatal, fenq, fpc, logVars, wrVars, cfgVars>>
vars == <<sinkVars, testVars, mhVars, extVars>>

\* ---- channel semantics (Go: buffered channel, select with default) ----

\* bug: the last slot of the buffer is never used
CanSend_OffByOne(q, c) == Len(q) < c - 1

\* bug: the buffer takes one record more than its capacity
CanSend_OneMore(q, c) == Len(q) <= c

\* a send on a buffered channel proceeds iff the buffer is not full
CanSend(q, c) == Len(q) < c

\* a receive proceeds iff a value is buffered or the channel is closed
CanRecv(q, closed) == q # <<>> \/ closed

\* bug: a closed channel reports !ok even while records are still buffered
RecvOk_ClosedFirst(q, closed) == q # <<>> /\ ~closed

\* "rec, ok := <-ch": ok is false only when the channel is closed AND drained
RecvOk(q, closed) == q # <<>>

\* the value a receive takes: the oldest buffered one
RecvValue(q) == Head(q)

\* bug: the receive reads the oldest record without removing it
RecvRest_Keep(q) == q

\* what stays buffered after a receive
RecvRest(q) == Tail(q)

\* bug: Wait does not wait
WaitDone_NoWait(w) == TRUE

\* sync.WaitGroup.Wait returns when the counter is zero
WaitDone(w) == w = 0

\* ---- logger front end (logger.Info) ----
Admits(L, m) == L >= m

\* ---- WriterHandler ----
Writers == 0..MaxChildren

\* Formatter.Format(rec): the message names the formatter that made it, the
\* record's level name and its text; it is never the empty string
Format(f, rec) == <<f, rec[3], rec[2]>>

\* bug: the level test of the handler excludes its own level
FilterAndFormat_Strict(L, f, rec) == IF L > rec[3] THEN Format(f, rec) ELSE <<>>

\* BaseHandler.FilterAndFormat; <<>> is the empty string
FilterAndFormat(L, f, rec) == IF L >= rec[3] THEN Format(f, rec) ELSE <<>>

\* WriterHandler.Handle of handler k
WriterHandle(k, rec) ==
    LET message == FilterAndFormat(hLevel[k], hFmt[k], rec)
    IN  IF message = <<>>
        THEN out' = out
        ELSE out' = [out EXCEPT ![k] = Append(@, message)]

\* bug: a full buffer evicts its oldest record instead of dropping the new one
SinkHandle_DropOldest(rec) ==
    IF chClosed
    THEN /\ panicked' = TRUE
         /\ UNCHANGED <<sinkCh, stderr>>
    ELSE IF CanSend(sinkCh, bufSize)
    THEN /\ sinkCh' = Append(sinkCh, rec)
         /\ UNCHANGED <<stderr, panicked>>
    ELSE /\ sinkCh' = Append(Tail(sinkCh), rec)
         /\ stderr' = stderr + 1
         /\ UNCHANGED panicked

\* bug: a plain "b.sinkCh <- rec" without the default case
SinkHandle_Blocking(rec) ==
    /\ chClosed \/ CanSend(sinkCh, bufSize)
    /\ IF chClosed
       THEN /\ panicked' = TRUE
            /\ UNCHANGED <<sinkCh, stderr>>
       ELSE /\ sinkCh' = Append(sinkCh, rec)
            /\ UNCHANGED <<stderr, panicked>>

\* bug: the buffer is a stack (newest record first)
SinkHandle_Push(rec) ==
    IF chClosed
    THEN /\ panicked' = TRUE
         /\ UNCHANGED <<sinkCh, stderr>>
    ELSE IF CanSend(sinkCh, bufSize)
    THEN /\ sinkCh' = <<rec>> \o sinkCh
         /\ UNCHANGED <<stderr, panicked>>
    ELSE /\ stderr' = stderr + 1
         /\ UNCHANGED <<sinkCh, panicked>>

\* bug: a send on the closed channel still enqueues (no panic)
SinkHandle_EnqueueAfterClose(rec) ==
    IF CanSend(sinkCh, bufSize)
    THEN /\ sinkCh' = Append(sinkCh, rec)
         /\ UNCHANGED <<stderr, panicked>>
    ELSE /\ stderr' = stderr + 1
         /\ UNCHANGED <<sinkCh, panicked>>

\* bug: a send on the closed channel is treated as one more dropped record
SinkHandle_DropAfterClose(rec) ==
    IF ~chClosed /\ CanSend(sinkCh, bufSize)
    THEN /\ sinkCh' = Append(sinkCh, rec)
         /\ UNCHANGED <<stderr, panicked>>
    ELSE /\ stderr' = stderr + 1
         /\ UNCHANGED <<sinkCh, panicked>>

\* ---- SinkHandler.Handle ----
\* select { case b.sinkCh <- rec:   default: Fprintf(os.Stderr, ...) }
SinkHandle(rec) ==
    IF chClosed
    THEN /\ panicked' = TRUE
         /\ UNCHANGED <<sinkCh, stderr>>
    ELSE IF CanSend(sinkCh, bufSize)
    THEN /\ sinkCh' = Append(sinkCh, rec)
         /\ UNCHANGED <<stderr, panicked>>
    ELSE /\ stderr' = stderr + 1
         /\ UNCHANGED <<sinkCh, panicked>>

\* bug: when the buffer is full the producer calls the inner handler itself
DoLog_DirectWhenFull(p) ==
    /\ ~panicked
    /\ sent[p] < NumEntries
    /\ Admits(DefaultLevel, INFO)
    /\ IF chClosed \/ CanSend(sinkCh, bufSize)
       THEN SinkHandle(<<p, sent[p] + 1>>) /\ UNCHANGED Records
       ELSE /\ Records' = [Records EXCEPT ![p] = Append(@, <<p, sent[p] + 1>>)]
            /\ UNCHANGED <<sinkCh, stderr, panicked>>
    /\ sent' = IF chClosed THEN sent ELSE [sent EXCEPT ![p] = @ + 1]
    /\ UNCHANGED <<bufSize, chClosed, wg, cpc, cur, Closed, dropped, clpc, mhVars>>
    /\ UNCHANGED extVars

\* ---- doLog: one l.Info call of producer p ----
DoLog(p) ==
    /\ ~panicked
    /\ sent[p] < NumEntries
    /\ Admits(DefaultLevel, INFO)
    /\ SinkHandle(<<p, sent[p] + 1>>)
    /\ sent' = IF chClosed THEN sent ELSE [sent EXCEPT ![p] = @ + 1]
    /\ dropped' = IF ~chClosed /\ ~CanSend(sinkCh, bufSize)
                  THEN [dropped EXCEPT ![p] = @ + 1] ELSE dropped
    /\ UNCHANGED <<bufSize, chClosed, wg, cpc, cur, Records, Closed, clpc, mhVars>>
    /\ UNCHANGED extVars

\* bug: a non-blocking receive that takes "nothing buffered" for end of stream
ProcessRecv_CloseOnEmpty ==
    /\ ~panicked
    /\ cpc = "recv"
    /\ IF RecvOk(sinkCh, chClosed)
       THEN /\ cur' = RecvValue(sinkCh)
            /\ sinkCh' = RecvRest(sinkCh)
            /\ cpc' = "handle"
       ELSE /\ cpc' = "close"
            /\ UNCHANGED <<cur, sinkCh>>
    /\ UNCHANGED <<bufSize, chClosed, wg, Records, Closed, stderr, panicked, testVars, mhVars>>
    /\ UNCHANGED extVars

\* ---- SinkHandler.process ----
\* rec, ok := <-b.sinkCh
ProcessRecv ==
    /\ ~panicked
    /\ cpc = "recv"
    /\ CanRecv(sinkCh, chClosed)
    /\ IF RecvOk(sinkCh, chClosed)
       THEN /\ cur' = RecvValue(sinkCh)
            /\ sinkCh' = RecvRest(sinkCh)
            /\ cpc' = "handle"
       ELSE /\ cpc' = "close"
            /\ UNCHANGED <<cur, sinkCh>>
    /\ UNCHANGED <<bufSize, chClosed, wg, Records, Closed, stderr, panicked, testVars, mhVars>>
    /\ UNCHANGED extVars

\* bug: "append(v, rec)" written without v: the list is overwritten
InnerHandle_Overwrite ==
    /\ ~panicked
    /\ cpc = "handle"
    /\ Records' = [Records EXCEPT ![cur[1]] = <<cur>>]
    /\ cur' = NoRec
    /\ cpc' = "recv"
    /\ UNCHANGED <<bufSize, sinkCh, chClosed, wg, Closed, stderr, panicked, testVars, mhVars>>
    /\ UNCHANGED extVars

\* b.inner.Handle(rec), inner a LogRecorder
InnerHandle ==
    /\ ~panicked
    /\ cpc = "handle"
    /\ Records' = [Records EXCEPT ![cur[1]] = Append(@, cur)]
    /\ cur' = NoRec
    /\ cpc' = "recv"
    /\ UNCHANGED <<bufSize, sinkCh, chClosed, wg, Closed, stderr, panicked, testVars, mhVars>>
    /\ UNCHANGED extVars

\* b.inner.Close(); break
InnerClose ==
    /\ ~panicked
    /\ cpc = "close"
    /\ Closed' = TRUE
    /\ cpc' = "wgdone"
    /\ UNCHANGED <<bufSize, sinkCh, chClosed, wg, cur, Records, stderr, panicked, testVars, mhVars>>
    /\ UNCHANGED extVars

\* bug: process() returns without b.wg.Done()
ProcessDone_Forgot ==
    /\ ~panicked
    /\ cpc = "wgdone"
    /\ cpc' = "exit"
    /\ UNCHANGED <<bufSize, sinkCh, chClosed, wg, cur, Records, Closed, stderr, panicked, testVars, mhVars>>
    /\ UNCHANGED extVars

\* b.wg.Done()
ProcessDone ==
    /\ ~panicked
    /\ cpc = "wgdone"
    /\ wg' = wg - 1
    /\ cpc' = "exit"
    /\ UNCHANGED <<bufSize, sinkCh, chClosed, cur, Records, Closed, stderr, panicked, testVars, mhVars>>
    /\ UNCHANGED extVars

\* ---- SinkHandler.Close ----
\* close(b.sinkCh)
CloseChan ==
    /\ ~panicked
    /\ clpc = "idle"
    /\ chClosed' = TRUE
    /\ clpc' = "wait"
    /\ UNCHANGED <<bufSize, sinkCh, wg, cpc, cur, Records, Closed, stderr, panicked, sent, dropped, mhVars>>
    /\ UNCHANGED extVars

\* b.wg.Wait() returns
CloseWait ==
    /\ ~panicked
    /\ clpc = "wait"
    /\ WaitDone(wg)
    /\ clpc' = "done"
    /\ UNCHANGED <<sinkVars, sent, dropped, mhVars>>
    /\ UNCHANGED extVars

\* ---- MultiHandler ----
Kids == 1..MaxChildren
IsSink(k) == sinkKid /\ k = 1

\* bug: the WaitGroup counts one goroutine too few
JoinCount_OneShort(n) == n - 1

\* wg.Add(len(b.handlers))
JoinCount(n) == n

\* the "go func(handler Handler) {...}(handler)" loop: one goroutine per child
Spawn(n) == [k \in Kids |-> IF k <= n THEN "go" ELSE "none"]

\* MultiHandler.Handle(rec): wg.Add, spawn
MHHandleCall ==
    /\ ~panicked
    /\ mpc = "idle"
    /\ mdone < NumEntries
    /\ mrec' = <<1, mdone + 1>>
    /\ mwg' = JoinCount(nKids)
    /\ task' = Spawn(nKids)
    /\ mpc' = "hwait"
    /\ UNCHANGED <<sinkVars, testVars, nKids, sinkKid, mdone, kidCalls, kidCloses>>
    /\ UNCHANGED extVars

\* handler.Handle(rec) in the goroutine of child k
KidHandle(k) ==
    /\ ~panicked
    /\ mpc = "hwait"
    /\ task[k] = "go"
    /\ IF IsSink(k)
       THEN SinkHandle(mrec)
       ELSE UNCHANGED <<sinkCh, stderr, panicked>>
    /\ kidCalls' = IF IsSink(k) /\ chClosed THEN kidCalls
                   ELSE [kidCalls EXCEPT ![k] = Append(@, mrec)]
    /\ task' = IF IsSink(k) /\ chClosed THEN task ELSE [task EXCEPT ![k] = "ret"]
    /\ UNCHANGED <<bufSize, chClosed, wg, cpc, cur, Records, Closed, testVars,
                   nKids, sinkKid, mpc, mrec, mdone, mwg, kidCloses>>
    /\ UNCHANGED extVars

\* wg.Done() in the goroutine of child k (of Handle or of Close)
TaskDone(k) ==
    /\ ~panicked
    /\ task[k] = "ret"
    /\ mwg' = mwg - 1
    /\ task' = [task EXCEPT ![k] = "done"]
    /\ UNCHANGED <<sinkVars, testVars, nKids, sinkKid, mpc, mrec, mdone, kidCalls, kidCloses>>
    /\ UNCHANGED extVars

\* bug: Handle returns without wg.Wait()
MHHandleReturn_NoWait ==
    /\ ~panicked
    /\ mpc = "hwait"
    /\ mdone' = mdone + 1
    /\ mpc' = "idle"
    /\ UNCHANGED <<sinkVars, testVars, nKids, sinkKid, mrec, mwg, task, kidCalls, kidCloses>>
    /\ UNCHANGED extVars

\* wg.Wait() of MultiHandler.Handle returns, and Handle with it
MHHandleReturn ==
    /\ ~panicked
    /\ mpc = "hwait"
    /\ WaitDone(mwg)
    /\ mdone' = mdone + 1
    /\ mpc' = "idle"
    /\ UNCHANGED <<sinkVars, testVars, nKids, sinkKid, mrec, mwg, task, kidCalls, kidCloses>>
    /\ UNCHANGED extVars

\* MultiHandler.Close(): wg.Add, spawn
MHCloseCall ==
    /\ ~panicked
    /\ mpc = "idle"
    /\ mwg' = JoinCount(nKids)
    /\ task' = Spawn(nKids)
    /\ mpc' = "cwait"
    /\ UNCHANGED <<sinkVars, testVars, nKids, sinkKid, mrec, mdone, kidCalls, kidCloses>>
    /\ UNCHANGED extVars

\* handler.Close() in the goroutine of child k: LogRecorder.Close, or the
\* close(b.sinkCh) of SinkHandler.Close
KidClose(k) ==
    /\ ~panicked
    /\ mpc = "cwait"
    /\ task[k] = "go"
    /\ IF IsSink(k)
       THEN /\ chClosed' = TRUE
            /\ task' = [task EXCEPT ![k] = "wait"]
            /\ UNCHANGED kidCloses
       ELSE /\ kidCloses' = [kidCloses EXCEPT ![k] = @ + 1]
            /\ task' = [task EXCEPT ![k] = "ret"]
            /\ UNCHANGED chClosed
    /\ UNCHANGED <<bufSize, sinkCh, wg, cpc, cur, Records, Closed, stderr, panicked,
                   testVars, nKids, sinkKid, mpc, mrec, mdone, mwg, kidCalls>>
    /\ UNCHANGED extVars

\* b.wg.Wait() of SinkHandler.Close returns in the goroutine of child k
KidCloseWait(k) ==
    /\ ~panicked
    /\ task[k] = "wait"
    /\ WaitDone(wg)
    /\ kidCloses' = [kidCloses EXCEPT ![k] = @ + 1]
    /\ task' = [task EXCEPT ![k] = "ret"]
    /\ UNCHANGED <<sinkVars, testVars, nKids, sinkKid, mpc, mrec, mdone, mwg, kidCalls>>
    /\ UNCHANGED extVars

\* wg.Wait() of MultiHandler.Close returns, and Close with it
MHCloseReturn ==
    /\ ~panicked
    /\ mpc = "cwait"
    /\ WaitDone(mwg)
    /\ mpc' = "closed"
    /\ UNCHANGED <<sinkVars, testVars, nKids, sinkKid, mrec, mdone, mwg, task, kidCalls, kidCloses>>
    /\ UNCHANGED extVars

\* ---- NewLogRecorder, NewSinkHandler(r, bufSize) ----
SinkInit ==
    /\ sinkCh = <<>>
    /\ chClosed = FALSE
    /\ wg = 1
    /\ cpc = "recv"
    /\ cur = NoRec
    /\ Records = [p \in Producers |-> <<>>]
    /\ Closed = FALSE
    /\ stderr = 0
    /\ panicked = FALSE

\* the goroutines of TestSinkHandler_Handle, before any has run
TestInit ==
    /\ sent = [p \in Producers |-> 0]
    /\ dropped = [p \in Producers |-> 0]
    /\ clpc = "idle"

\* NewMultiHandler(handlers...)
MHInit(n, s) ==
    /\ nKids = n
    /\ sinkKid = s
    /\ mpc = "idle"
    /\ mrec = NoRec
    /\ mdone = 0
    /\ mwg = 0
    /\ task = [k \in Kids |-> "none"]
    /\ kidCalls = [k \in Kids |-> <<>>]
    /\ kidCloses = [k \in Kids |-> 0]

\* NewLogger, NewWriterHandler; nothing has called Status or Fatal yet
ExtInit ==
    /\ status = <<0, 0>>
    /\ fatal = NoRec
    /\ fenq = FALSE
    /\ fpc = "none"
    /\ lLevel = DefaultLevel
    /\ lcalls = <<>>
    /\ hcalls = <<>>
    /\ hLevel = [k \in Writers |-> DefaultLevel]
    /\ hFmt = [k \in Writers |-> DefaultFormatter]
    /\ out = [k \in Writers |-> <<>>]
    /\ cfg = <<DefaultLevel, DefaultFormatter>>
    /\ enqCfg = [n \in 1..NumEntries |-> <<>>]
    /\ expect = <<>>

Init ==
    /\ bufSize \in 1..MaxCap
    /\ SinkInit
    /\ TestInit
    /\ MHInit(0, FALSE)
    /\ ExtInit

Consumer ==
    \/ ProcessRecv
    \/ InnerHandle
    \/ InnerClose
    \/ ProcessDone

Next ==
    \/ \E p \in Producers : DoLog(p)
    \/ ProcessRecv
    \/ InnerHandle
    \/ InnerClose
    \/ ProcessDone
    \/ CloseChan
    \/ CloseWait

Spec == Init /\ [][Next]_vars

\* The Go scheduler runs every runnable goroutine eventually: the consumer
\* goroutine and the goroutine blocked in Close take their enabled steps.
\* It is checked for the smallest bufSize and for the one of the test
\* (NewSinkHandler(r, loggers)); both let a backlog build up and records drop.
FairInit ==
    /\ bufSize \in {1, NumProducers}
    /\ SinkInit
    /\ TestInit
    /\ MHInit(0, FALSE)
    /\ ExtInit

FairSpec ==
    FairInit /\ [][Next]_vars /\ WF_vars(Consumer) /\ WF_vars(CloseWait)

MInit ==
    /\ \E n \in 0..MaxChildren : \E s \in BOOLEAN :
          /\ s => n >= 1
          /\ MHInit(n, s)
          /\ bufSize \in (IF s THEN 1..NumEntries ELSE {1})
    /\ SinkInit
    /\ TestInit
    /\ ExtInit

MNext ==
    \/ MHHandleCall
    \/ \E k \in Kids : KidHandle(k)
    \/ \E k \in Kids : TaskDone(k)
    \/ MHHandleReturn
    \/ MHCloseCall
    \/ \E k \in Kids : KidClose(k)
    \/ \E k \in Kids : KidCloseWait(k)
    \/ MHCloseReturn
    \/ ProcessRecv
    \/ InnerHandle
    \/ InnerClose
    \/ ProcessDone

MSpec == MInit /\ [][MNext]_vars

\* ======================= properties =======================

\* every producer has finished doLog
AllSent == \A p \in Producers : sent[p] = NumEntries

\* SinkHandler.Close has returned to its caller
CloseReturned == clpc = "done"

\* the records of producer p, numbered 1..n in the order of its calls
FirstRecs(p, n) == [i \in 1..n |-> <<p, i>>]

\* records of producer p that took the "case b.sinkCh <- rec" branch
Accepted(p) == sent[p] - dropped[p]

\* the records of a sequence
Range(q) == {q[i] : i \in DOMAIN q}

\* the sequence numbers in q grow strictly
Ascending(q) == \A i, j \in DOMAIN q : i < j => q[i][2] < q[j][2]

\* the records of producer p that process() has taken from the channel, in
\* the order it took them: those handled, then the one being handled
Taken(p) == Records[p] \o (IF cur[1] = p THEN <<cur>> ELSE <<>>)

\* the consumer has left its loop: inner.Close is being or has been called
InnerClosing == cpc \in {"close", "wgdone", "exit"}

\* C1 No-loss-under-capacity: with bufSize >= NumProducers * NumEntries no
\* Handle call ever drops (nothing is written to stderr), and once every
\* producer has finished and the single Close issued after them has returned,
\* the inner handler holds exactly the NumEntries records of every producer.
C1_NoLossUnderCapacity ==
    bufSize >= NumProducers * NumEntries =>
        /\ stderr = 0
        /\ \A p \in Producers : dropped[p] = 0
        /\ (AllSent /\ CloseReturned =>
               \A p \in Producers : Records[p] = FirstRecs(p, NumEntries))

C1_Witness ==
    /\ bufSize >= NumProducers * NumEntries
    /\ AllSent
    /\ CloseReturned
    /\ \A p \in Producers : Len(Records[p]) = NumEntries

C3_OverflowPolicy ==
    [][\A p \in Producers :
          sent'[p] # sent[p] =>
             IF Len(sinkCh) < bufSize
             THEN /\ sinkCh' = Append(sinkCh, <<p, sent'[p]>>)
                  /\ stderr' = stderr
             ELSE /\ sinkCh' = sinkCh
                  /\ stderr' = stderr + 1
                  /\ Records' = Records
                  /\ Closed' = Closed
                  /\ cur' = cur]_vars

C3_Witness ==
    /\ stderr > 0
    /\ Len(sinkCh) = bufSize
    /\ \E p \in Producers : dropped[p] > 0 /\ Accepted(p) > 0

\* C4 Drop-never-blocks: while the channel is open, a producer that has a
\* record to log can always take its Handle step at once, whatever the
\* channel holds and wherever the consumer is (also inside inner.Handle).
C4_HandleNeverBlocks ==
    \A p \in Producers :
        sent[p] < NumEntries /\ ~chClosed /\ ~panicked => ENABLED DoLog(p)

C4_Witness ==
    /\ Len(sinkCh) = bufSize
    /\ cpc = "handle"
    /\ ~chClosed
    /\ \E p \in Producers : sent[p] < NumEntries /\ dropped[p] > 0

\* C5 FIFO-per-producer: the records of one producer reach inner.Handle in
\* the order of that producer's Handle calls.
C5_FifoPerProducer == \A p \in Producers : Ascending(Taken(p))

C5_Witness ==
    \E p \in Producers :
        /\ Len(Records[p]) >= 2
        /\ \E q \in Producers : q # p /\ dropped[q] > 0

\* C6 Close-drains-before-inner-close: from the moment inner.Close is
\* invoked no inner.Handle call is running or follows, the channel is empty
\* and every record that was enqueued has been handled by the inner handler.
C6_DrainBeforeInnerClose ==
    Closed \/ cpc = "close" =>
        /\ InnerClosing
        /\ chClosed
        /\ sinkCh = <<>>
        /\ cur = NoRec
        /\ \A p \in Producers : Len(Records[p]) = Accepted(p)

C6_Witness ==
    /\ cpc = "close"
    /\ ~Closed
    /\ \E p \in Producers : Len(Records[p]) >= 2

\* C7 Close is a blocking barrier: when SinkHandler.Close has returned, the
\* consumer has finished, the inner handler is closed, the channel is empty
\* and every enqueued record has been handled.
C7_CloseBarrier ==
    CloseReturned =>
        /\ cpc = "exit"
        /\ Closed
        /\ sinkCh = <<>>
        /\ cur = NoRec
        /\ \A p \in Producers : Len(Records[p]) = Accepted(p)

C7_Witness ==
    /\ CloseReturned
    /\ \E p \in Producers : Records[p] # <<>>
    /\ \E p \in Producers : sent[p] < NumEntries

\* C8 Every record in the channel is eventually handled by the inner handler
\* when the goroutines are scheduled fairly, also when Close finds a backlog;
\* the only exception is a process killed by a panic (send on the closed
\* channel), after which no goroutine is scheduled at all.
C8_EnqueuedEventuallyHandled ==
    \A r \in AllRecs :
        (r \in Range(sinkCh)) ~> (r \in Range(Records[r[1]]) \/ panicked)

C8_Witness ==
    /\ chClosed
    /\ Len(sinkCh) >= 2
    /\ cpc = "recv"
    /\ ~panicked

\* the children of the MultiHandler
Handlers == 1..nKids

\* the goroutine spawned for child k has returned from the child's call
Returned(k) == task[k] \in {"ret", "done"}

\* C9 Fan-out Handle completeness and barrier: every child has received the
\* records of the MultiHandler.Handle calls made so far once each and in
\* order; while a call is in progress a child has the call's record iff its
\* own Handle has returned, and whenever no call is in progress (each call
\* has returned) every child has returned from exactly one Handle per call.
C9_FanOutHandleBarrier ==
    \A k \in Handlers :
        /\ kidCalls[k] = FirstRecs(1, Len(kidCalls[k]))
        /\ Len(kidCalls[k]) =
              IF mpc = "hwait" /\ Returned(k) THEN mdone + 1 ELSE mdone

C9_Witness ==
    /\ mpc = "idle"
    /\ mdone = NumEntries
    /\ nKids = MaxChildren
    /\ sinkKid
    /\ \A k \in Handlers : Len(kidCalls[k]) = NumEntries

\* C10 Fan-out Close barrier: no child is closed twice, and when
\* MultiHandler.Close has returned every child's Close has been called once
\* and has returned; a SinkHandler child has by then drained its channel
\* into its inner handler and closed it.
C10_FanOutCloseBarrier ==
    /\ \A k \in Kids : kidCloses[k] <= 1
    /\ mpc = "closed" =>
          /\ \A k \in Handlers : kidCloses[k] = 1 /\ task[k] = "done"
          /\ sinkKid =>
                /\ cpc = "exit"
                /\ Closed
                /\ sinkCh = <<>>
                /\ cur = NoRec
                /\ Len(Records[1]) + stderr = mdone

C10_Witness ==
    /\ mpc = "closed"
    /\ nKids = MaxChildren
    /\ sinkKid
    /\ Len(Records[1]) >= 1
    /\ stderr >= 1

\* ---- SinkHandler lifecycle ----
\* Running: the channel is open; Draining: closed, process() still at work;
\* Closed: process() has closed the inner handler
SinkState ==
    IF ~chClosed THEN "Running" ELSE IF Closed THEN "Closed" ELSE "Draining"

StateRank(st) == CASE st = "Running" -> 0 [] st = "Draining" -> 1 [] st = "Closed" -> 2

\* the records of producer p still buffered in the channel, oldest first
Queued(p) == SelectSeq(sinkCh, LAMBDA r : r[1] = p)

\* the records the producers 1..n dropped, all together
RECURSIVE DropTotal(_)
DropTotal(n) == IF n = 0 THEN 0 ELSE dropped[n] + DropTotal(n - 1)

\* every record of producer p that is past Handle and not dropped, in the
\* order the inner handler gets it
Pipeline(p) == Taken(p) \o Queued(p)

\* C12 Lifecycle is monotone: every step keeps the sink's state or moves it
\* one stage forward, Running -> Draining by close(b.sinkCh), Draining ->
\* Closed only when the channel is closed and empty; nothing is enqueued
\* outside Running.
C12_LifecycleMonotone ==
    [][/\ StateRank(SinkState') >= StateRank(SinkState)
       /\ StateRank(SinkState') <= StateRank(SinkState) + 1
       /\ (SinkState = "Running" /\ SinkState' = "Draining" => clpc = "idle" /\ clpc' = "wait")
       /\ (SinkState = "Draining" /\ SinkState' = "Closed" => sinkCh = <<>> /\ cur = NoRec)
       /\ (SinkState # "Running" => Range(sinkCh') \subseteq Range(sinkCh))]_vars

C12_Witness ==
    /\ SinkState = "Closed"
    /\ \E p \in Producers : sent[p] < NumEntries
    /\ \E p \in Producers : Len(Records[p]) = NumEntries

\* C15 Serial consumer: the inner handler is only ever entered from the one
\* call site of the one process() goroutine: its Records change only by the
\* step that ends inner.Handle(cur), its Closed only by inner.Close, which
\* process() reaches after the last inner.Handle; a producer's Handle never
\* touches the inner handler.
C15_SerialConsumer ==
    [][/\ (Records' # Records =>
              /\ cpc = "handle" /\ cpc' = "recv"
              /\ Records' = [Records EXCEPT ![cur[1]] = Append(@, cur)])
       /\ (Closed' # Closed => cpc = "close" /\ cpc' = "wgdone" /\ cur = NoRec)
       /\ (sent' # sent => Records' = Records /\ Closed' = Closed /\ cpc' = cpc)]_vars

C15_Witness ==
    /\ cpc = "handle"
    /\ Len(sinkCh) = bufSize
    /\ \A p \in Producers : dropped[p] > 0

\* C16 Handle after Close is fatal: once the channel is closed a Handle call
\* does not block and its only outcome is the panic; no Handle returns, no
\* record is enqueued and no drop diagnostic is written after the close, and
\* the panic itself changes neither the channel nor the inner handler.
C16_HandleAfterCloseFatal ==
    /\ [](\A p \in Producers :
            chClosed /\ ~panicked /\ sent[p] < NumEntries =>
               ENABLED (DoLog(p) /\ panicked'))
    /\ [][/\ (chClosed =>
                 /\ sent' = sent
                 /\ stderr' = stderr
                 /\ dropped' = dropped
                 /\ Range(sinkCh') \subseteq Range(sinkCh))
          /\ (panicked' # panicked =>
                 /\ chClosed
                 /\ panicked'
                 /\ sinkCh' = sinkCh
                 /\ cur' = cur
                 /\ Records' = Records)]_vars

C16_Witness ==
    /\ panicked
    /\ sinkCh # <<>>
    /\ \E p \in Producers : sent[p] = 0

\* C17 Close terminates: under fair scheduling, where every inner call
\* returns, a Close that has closed the channel eventually returns, whatever
\* the backlog (unless a send on the closed channel has killed the process);
\* and it returns only once process() has exited, so never while an inner
\* Handle call has not returned.
C17_CloseTerminates ==
    /\ (clpc = "wait") ~> (clpc = "done" \/ panicked)
    /\ [][clpc' = "done" /\ clpc # "done" => cpc = "exit" /\ cur = NoRec]_vars

C17_Witness ==
    /\ clpc = "wait"
    /\ Len(sinkCh) = bufSize
    /\ bufSize = NumProducers
    /\ cpc = "handle"

\* C18 Record conservation: for every producer, the Handle calls that
\* returned are exactly the records handled by the inner handler, the one
\* being handled, those in the channel and those dropped; no record occurs
\* twice; stderr has one line per drop; once the sink is Closed every
\* accepted record has been handled.
C18_RecordConservation ==
    /\ \A p \in Producers :
          /\ sent[p] = Len(Records[p]) + (IF cur[1] = p THEN 1 ELSE 0)
                          + Len(Queued(p)) + dropped[p]
          /\ Ascending(Pipeline(p))
          /\ Range(Pipeline(p)) \subseteq Range(FirstRecs(p, sent[p]))
          /\ (SinkState = "Closed" => Len(Records[p]) = Accepted(p))
    /\ Len(sinkCh) = Cardinality(Range(sinkCh))
    /\ stderr = DropTotal(NumProducers)

C18_Witness ==
    /\ SinkState = "Draining"
    /\ cur # NoRec
    /\ sinkCh # <<>>
    /\ \E p \in Producers : dropped[p] > 0 /\ Records[p] # <<>>

\* ---- SinkHandler.Status ----
\* return b.bufSize, len(b.sinkCh)
StatusCall ==
    /\ ~panicked
    /\ status' = <<bufSize, Len(sinkCh)>>
    /\ UNCHANGED <<sinkVars, testVars, mhVars, fatal, fenq, fpc, logVars, wrVars, cfgVars>>

\* the test's goroutines plus a monitor calling Status at any moment
QInit == FairInit

QNext == Next \/ StatusCall

QSpec == QInit /\ [][QNext]_vars

\* C13 Bounded queue: the channel always holds between 0 and bufSize
\* records; bufSize never changes after NewSinkHandler; every Status call
\* returns (bufSize, number of records in the channel) and leaves the
\* channel as it was.
C13_BoundedQueue ==
    /\ [](/\ Len(sinkCh) \in 0..bufSize
          /\ status = <<0, 0>> \/ (status[1] = bufSize /\ status[2] \in 0..bufSize))
    /\ [][/\ bufSize' = bufSize
          /\ (status' # status =>
                 /\ status' = <<bufSize, Len(sinkCh)>>
                 /\ sinkCh' = sinkCh
                 /\ cur' = cur)]_vars

C13_Witness ==
    /\ bufSize = NumProducers
    /\ status = <<bufSize, bufSize>>
    /\ Len(sinkCh) < bufSize
    /\ stderr > 0

\* ---- logger.Fatal ----
\* l.Critical(format, args...): producer p's next call is Fatal; the record
\* passes the logger's level test and goes to l.Handler.Handle
FatalCritical(p) ==
    /\ ~panicked
    /\ fpc = "none"
    /\ sent[p] < NumEntries
    /\ Admits(DefaultLevel, CRITICAL)
    /\ SinkHandle(<<p, sent[p] + 1>>)
    /\ sent' = IF chClosed THEN sent ELSE [sent EXCEPT ![p] = @ + 1]
    /\ dropped' = IF ~chClosed /\ ~CanSend(sinkCh, bufSize)
                  THEN [dropped EXCEPT ![p] = @ + 1] ELSE dropped
    /\ fatal' = <<p, sent[p] + 1>>
    /\ fenq' = (~chClosed /\ CanSend(sinkCh, bufSize))
    /\ fpc' = IF chClosed THEN fpc ELSE "close"
    /\ UNCHANGED <<bufSize, chClosed, wg, cpc, cur, Records, Closed, clpc, mhVars, status, logVars, wrVars, cfgVars>>

\* bug: Fatal as its doc comment describes it, Critical then os.Exit(1)
FatalCloseChan_Skipped ==
    /\ ~panicked
    /\ fpc = "close"
    /\ fpc' = "exit"
    /\ UNCHANGED <<sinkVars, testVars, mhVars, status, fatal, fenq, logVars, wrVars, cfgVars>>

\* l.Handler.Close(): close(b.sinkCh)
FatalCloseChan ==
    /\ ~panicked
    /\ fpc = "close"
    /\ chClosed' = TRUE
    /\ fpc' = "wait"
    /\ UNCHANGED <<bufSize, sinkCh, wg, cpc, cur, Records, Closed, stderr, panicked,
                   testVars, mhVars, status, fatal, fenq, logVars, wrVars, cfgVars>>

\* l.Handler.Close(): b.wg.Wait() returns
FatalCloseWait ==
    /\ ~panicked
    /\ fpc = "wait"
    /\ WaitDone(wg)
    /\ fpc' = "exit"
    /\ UNCHANGED <<sinkVars, testVars, mhVars, status, fatal, fenq, logVars, wrVars, cfgVars>>

\* os.Exit(1)
FatalExit ==
    /\ ~panicked
    /\ fpc = "exit"
    /\ fpc' = "exited"
    /\ UNCHANGED <<sinkVars, testVars, mhVars, status, fatal, fenq, logVars, wrVars, cfgVars>>

\* the producers of the test, one of which calls Fatal at some point; the
\* goroutine inside Fatal logs nothing else, and nothing runs after os.Exit
FInit == FairInit

FNext ==
    /\ fpc # "exited"
    /\ \/ \E p \in Producers : p # fatal[1] /\ DoLog(p)
       \/ \E p \in Producers : FatalCritical(p)
       \/ ProcessRecv
       \/ InnerHandle
       \/ InnerClose
       \/ ProcessDone
       \/ FatalCloseChan
       \/ FatalCloseWait
       \/ FatalExit

FSpec == FInit /\ [][FNext]_vars

LoggerSetLevel(l) ==
    /\ lLevel' = l
    /\ UNCHANGED <<sinkVars, testVars, mhVars, status, fatal, fenq, fpc, lcalls, hcalls, wrVars, cfgVars>>

\* BaseHandler.SetLevel on the logger's handler
HandlerSetLevel(l) ==
    /\ hLevel' = [hLevel EXCEPT ![0] = l]
    /\ UNCHANGED <<sinkVars, testVars, mhVars, status, fatal, fenq, fpc, logVars, hFmt, out, cfgVars>>

\* l.Critical .. l.Debug, m the level of the method: level test, l.log,
\* l.Handler.Handle(rec)
LogCall(m) ==
    /\ Len(lcalls) < NumEntries
    /\ lcalls' = Append(lcalls, m)
    /\ IF Admits(lLevel, m)
       THEN /\ hcalls' = Append(hcalls, <<1, Len(lcalls) + 1, m>>)
            /\ WriterHandle(0, <<1, Len(lcalls) + 1, m>>)
       ELSE UNCHANGED <<hcalls, out>>
    /\ UNCHANGED <<sinkVars, testVars, mhVars, status, fatal, fenq, fpc, lLevel, hLevel, hFmt, cfgVars>>

LInit == FairInit

LNext ==
    \/ \E l \in Levels : LoggerSetLevel(l)
    \/ \E l \in Levels : HandlerSetLevel(l)
    \/ \E m \in Levels : LogCall(m)

LSpec == LInit /\ [][LNext]_vars

\* C19 Level admission: a call of the logger method of level m passes a
\* record to the handler iff l.Level >= m, and the WriterHandler writes a
\* message for that record iff its own Level >= m; a message the logger
\* rejects causes no Handle call and no write, a record the handler rejects
\* causes no write.
C19_LevelAdmission ==
    [][lcalls' # lcalls =>
          LET m == lcalls'[Len(lcalls')]
              rec == <<1, Len(lcalls'), m>>
          IN  /\ (lLevel >= m => hcalls' = Append(hcalls, rec))
              /\ (lLevel < m => hcalls' = hcalls /\ out' = out)
              /\ (lLevel >= m /\ hLevel[0] >= m =>
                     out' = [out EXCEPT ![0] = Append(@, <<hFmt[0], m, Len(lcalls')>>)])
              /\ (hLevel[0] < m => out' = out)]_vars

C19_Witness ==
    /\ Len(lcalls) = NumEntries
    /\ Len(hcalls) = 1
    /\ out[0] = <<>>
    /\ lLevel = DEBUG

\* ---- SinkHandler around a WriterHandler, reconfigured while in use ----
\* b.Handle(rec) called directly with a record of level m
SHandleCall(m) ==
    /\ ~panicked
    /\ sent[1] < NumEntries
    /\ SinkHandle(<<1, sent[1] + 1, m>>)
    /\ sent' = IF chClosed THEN sent ELSE [sent EXCEPT ![1] = @ + 1]
    /\ dropped' = IF ~chClosed /\ ~CanSend(sinkCh, bufSize)
                  THEN [dropped EXCEPT ![1] = @ + 1] ELSE dropped
    /\ enqCfg' = IF ~chClosed /\ CanSend(sinkCh, bufSize)
                 THEN [enqCfg EXCEPT ![sent[1] + 1] = <<m, hLevel[0], hFmt[0]>>]
                 ELSE enqCfg
    /\ UNCHANGED <<bufSize, chClosed, wg, cpc, cur, Records, Closed, clpc, mhVars>>
    /\ UNCHANGED <<status, fatal, fenq, fpc, logVars, wrVars, cfg, expect>>

\* SinkHandler.SetLevel(l): b.inner.SetLevel(l)
SinkSetLevel(l) ==
    /\ ~panicked
    /\ hLevel' = [hLevel EXCEPT ![0] = l]
    /\ cfg' = <<l, cfg[2]>>
    /\ UNCHANGED <<sinkVars, testVars, mhVars>>
    /\ UNCHANGED <<status, fatal, fenq, fpc, logVars, hFmt, out, enqCfg, expect>>

\* SinkHandler.SetFormatter(f): b.inner.SetFormatter(f)
SinkSetFormatter(f) ==
    /\ ~panicked
    /\ hFmt' = [hFmt EXCEPT ![0] = f]
    /\ cfg' = <<cfg[1], f>>
    /\ UNCHANGED <<sinkVars, testVars, mhVars>>
    /\ UNCHANGED <<status, fatal, fenq, fpc, logVars, hLevel, out, enqCfg, expect>>

\* bug: the record is filtered by the level in force when it was enqueued
InnerFilter_EnqueueLevel ==
    /\ ~panicked
    /\ cpc = "handle"
    /\ IF enqCfg[cur[2]][2] >= cur[3]
       THEN cpc' = "format" /\ cur' = cur
       ELSE cpc' = "recv" /\ cur' = NoRec
    /\ UNCHANGED <<bufSize, sinkCh, chClosed, wg, Records, Closed, stderr, panicked>>
    /\ UNCHANGED <<testVars, mhVars, extVars>>

\* b.inner.Handle(rec), inner a WriterHandler: the level test of
\* FilterAndFormat, run by the goroutine of process() with no lock held
InnerFilter ==
    /\ ~panicked
    /\ cpc = "handle"
    /\ IF hLevel[0] >= cur[3]
       THEN cpc' = "format" /\ cur' = cur
       ELSE cpc' = "recv" /\ cur' = NoRec
    /\ UNCHANGED <<bufSize, sinkCh, chClosed, wg, Records, Closed, stderr, panicked>>
    /\ UNCHANGED <<testVars, mhVars, extVars>>

\* b.inner.Handle(rec), continued: h.Formatter.Format(rec), fmt.Fprint(b.w, message)
InnerFormat ==
    /\ ~panicked
    /\ cpc = "format"
    /\ out' = [out EXCEPT ![0] = Append(@, Format(hFmt[0], cur))]
    /\ cur' = NoRec
    /\ cpc' = "recv"
    /\ UNCHANGED <<bufSize, sinkCh, chClosed, wg, Records, Closed, stderr, panicked>>
    /\ UNCHANGED <<testVars, mhVars, status, fatal, fenq, fpc, logVars, hLevel, hFmt, cfgVars>>

\* NewSinkHandler(NewWriterHandler(w), NumProducers): room for a backlog
SInit ==
    /\ bufSize = NumProducers
    /\ SinkInit
    /\ TestInit
    /\ MHInit(0, FALSE)
    /\ ExtInit

SNext ==
    \/ \E m \in RecLevels : SHandleCall(m)
    \/ \E l \in CfgLevels : SinkSetLevel(l)
    \/ \E f \in Formatters : SinkSetFormatter(f)
    \/ ProcessRecv
    \/ InnerFilter
    \/ InnerFormat

SSpec == SInit /\ [][SNext]_vars

\* the record with sequence number n went through the channel and process()
\* is done with it
Drained(n) ==
    /\ enqCfg[n] # <<>>
    /\ \A i \in 1..Len(sinkCh) : sinkCh[i][2] # n
    /\ cur[2] # n

\* the message written for the record with sequence number n, if any
Written(n) == {msg \in Range(out[0]) : msg[3] = n}

\* C14 Setters bypass the queue: the inner handler always has the level and
\* formatter last passed to SinkHandler.SetLevel / SetFormatter; a setter
\* step leaves the channel, the record in process()'s hand and the output
\* unchanged; a record is filtered by the level in force when process()
\* tests it and formatted by the formatter in force when process() formats
\* it, whatever was in force when it was enqueued.
C14_SettersBypassQueue ==
    /\ [](hLevel[0] = cfg[1] /\ hFmt[0] = cfg[2])
    /\ [][/\ (cfg' # cfg =>
                 /\ sinkCh' = sinkCh /\ cur' = cur /\ out' = out /\ cpc' = cpc
                 /\ hLevel'[0] = cfg'[1] /\ hFmt'[0] = cfg'[2])
          /\ (cpc = "handle" /\ cpc' # "handle" =>
                 /\ (cpc' = "format") = (cfg[1] >= cur[3])
                 /\ out' = out)
          /\ (cpc = "format" /\ cpc' # "format" =>
                 out' = [out EXCEPT ![0] = Append(@, <<cfg[2], cur[3], cur[2]>>)])
          /\ (out' # out => cpc = "format")]_vars

C14_Witness ==
    /\ \E n \in 1..NumEntries :
          /\ Drained(n)
          /\ enqCfg[n][2] >= enqCfg[n][1]
          /\ Written(n) = {}
    /\ \E n \in 1..NumEntries :
          /\ Drained(n)
          /\ enqCfg[n][2] < enqCfg[n][1]
          /\ \E msg \in Written(n) : msg[1] # enqCfg[n][3]

\* ---- MultiHandler over WriterHandlers, reconfigured between Handle calls ----
\* bug: the range loop stops after the first child
SetAll_FirstOnly(h, n, v) ==
    [k \in Writers |-> IF k = 1 /\ n >= 1 THEN v ELSE h[k]]

\* for _, h := range b.handlers { h.SetLevel(v) } (resp. h.SetFormatter(v)):
\* h is the field of every WriterHandler, the children are 1..n
SetAll(h, n, v) ==
    [k \in Writers |-> IF k \in 1..n THEN v ELSE h[k]]

\* MultiHandler.SetLevel(l), called between two Handle calls
MHSetLevel(l) ==
    /\ mpc = "idle"
    /\ hLevel' = SetAll(hLevel, nKids, l)
    /\ cfg' = <<l, cfg[2]>>
    /\ UNCHANGED <<sinkVars, testVars, mhVars>>
    /\ UNCHANGED <<status, fatal, fenq, fpc, logVars, hFmt, out, enqCfg, expect>>

\* MultiHandler.SetFormatter(f), called between two Handle calls
MHSetFormatter(f) ==
    /\ mpc = "idle"
    /\ hFmt' = SetAll(hFmt, nKids, f)
    /\ cfg' = <<cfg[1], f>>
    /\ UNCHANGED <<sinkVars, testVars, mhVars>>
    /\ UNCHANGED <<status, fatal, fenq, fpc, logVars, hLevel, out, enqCfg, expect>>

\* MultiHandler.Handle(rec) with a record of level m: wg.Add, spawn
CHandleCall(m) ==
    /\ mpc = "idle"
    /\ mdone < NumEntries
    /\ mrec' = <<1, mdone + 1, m>>
    /\ mwg' = JoinCount(nKids)
    /\ task' = Spawn(nKids)
    /\ mpc' = "hwait"
    /\ expect' = IF cfg[1] >= m
                 THEN Append(expect, <<cfg[2], m, mdone + 1>>)
                 ELSE expect
    /\ UNCHANGED <<sinkVars, testVars, nKids, sinkKid, mdone, kidCalls, kidCloses>>
    /\ UNCHANGED <<status, fatal, fenq, fpc, logVars, wrVars, cfg, enqCfg>>

\* handler.Handle(rec) in the goroutine of child k, a WriterHandler
WKidHandle(k) ==
    /\ mpc = "hwait"
    /\ task[k] = "go"
    /\ WriterHandle(k, mrec)
    /\ task' = [task EXCEPT ![k] = "ret"]
    /\ UNCHANGED <<sinkVars, testVars, nKids, sinkKid, mpc, mrec, mdone, mwg, kidCalls, kidCloses>>
    /\ UNCHANGED <<status, fatal, fenq, fpc, logVars, hLevel, hFmt, cfgVars>>

\* NewMultiHandler(NewWriterHandler(w1), ...)
CInit ==
    /\ \E n \in 1..MaxChildren : MHInit(n, FALSE)
    /\ bufSize = 1
    /\ SinkInit
    /\ TestInit
    /\ ExtInit

CNext ==
    \/ \E l \in CfgLevels : MHSetLevel(l)
    \/ \E f \in Formatters : MHSetFormatter(f)
    \/ \E m \in RecLevels : CHandleCall(m)
    \/ \E k \in Kids : WKidHandle(k)
    \/ \E k \in Kids : TaskDone(k)
    \/ MHHandleReturn

CSpec == CInit /\ [][CNext]_vars

\* C11 Fan-out configuration: whenever no MultiHandler call is in progress,
\* every child has the level and the formatter last passed to
\* MultiHandler.SetLevel / SetFormatter, and every child has written exactly
\* the messages of the records that passed the level in force at their
\* Handle call, formatted by the formatter in force then; applying a setter
\* a second time with the same value changes no child.
C11_FanOutConfig ==
    /\ mpc = "idle" =>
          \A k \in 1..nKids :
              /\ hLevel[k] = cfg[1]
              /\ hFmt[k] = cfg[2]
              /\ out[k] = expect
    /\ \A l \in CfgLevels :
          SetAll(SetAll(hLevel, nKids, l), nKids, l) = SetAll(hLevel, nKids, l)
    /\ \A f \in Formatters :
          SetAll(SetAll(hFmt, nKids, f), nKids, f) = SetAll(hFmt, nKids, f)

C11_Witness ==
    /\ mpc = "idle"
    /\ nKids = MaxChildren
    /\ mdone = NumEntries
    /\ Len(expect) = 1
    /\ expect[1][1] # DefaultFormatter
    /\ cfg[1] = CRITICAL
    /\ \A k \in 1..nKids : out[k] = expect

====
